---------------------------- MODULE Spec2Model ----------------------------
(***************************************************************************)
(* Model of the Mandos value interpreter                                   *)
(* (test-util/mandos/json/valueinterpreter/interpreter.go).                *)
(*                                                                         *)
(* A Go string is a sequence of one-character strings, a []byte is a       *)
(* sequence of numbers in 0..255, a *big.Int is an integer.  A call's      *)
(* outcome is a record                                                     *)
(*    bytes : the returned []byte (nil and []byte{} are both <<>>)         *)
(*    err   : the returned error, as the text of its message; Nil = nil    *)
(*    fault : TRUE when the call did not return but panicked               *)
(*    calls : the arguments handed to FileResolver.ResolveFileValue, in    *)
(*            the order of the calls                                       *)
(***************************************************************************)
EXTENDS Integers, Sequences, FiniteSets, TLC

VARIABLES
    FileResolver,   \* ValueInterpreter.FileResolver: NoResolver (nil) or a resolver
    obj,            \* the argument of the call: an OJsonObject
    pc,             \* "ready" before the call, then the name of the method called
    out             \* the outcome of the call

vars == <<FileResolver, obj, pc, out>>

-----------------------------------------------------------------------------
(* Outcomes *)

Nil == <<>>

Ok(bytes, calls) == [bytes |-> bytes, err |-> Nil, fault |-> FALSE, calls |-> calls]

Fail(bytes, err, calls) == [bytes |-> bytes, err |-> err, fault |-> FALSE, calls |-> calls]

Panic(calls) == [bytes |-> <<>>, err |-> Nil, fault |-> TRUE, calls |-> calls]

NoResult == [bytes |-> <<>>, err |-> Nil, fault |-> FALSE, calls |-> <<>>]

Succeeded(r) == ~r.fault /\ r.err = Nil

Failed(r) == ~r.fault /\ r.err # Nil

-----------------------------------------------------------------------------
(* Strings and the library functions the interpreter calls *)

\* strings.HasPrefix
HasPrefix(s, prefix) ==
    Len(s) >= Len(prefix) /\ SubSeq(s, 1, Len(prefix)) = prefix

\* s[n:]
Drop(s, n) == SubSeq(s, n + 1, Len(s))

RECURSIVE SplitFrom(_, _, _, _)
SplitFrom(s, sep, i, cur) ==
    IF i > Len(s) THEN <<cur>>
    ELSE IF s[i] = sep THEN <<cur>> \o SplitFrom(s, sep, i + 1, <<>>)
    ELSE SplitFrom(s, sep, i + 1, Append(cur, s[i]))

\* strings.Split(s, sep) for a one-character separator
Split(s, sep) == SplitFrom(s, sep, 1, <<>>)

\* strings.ReplaceAll(s, old, "") for a one-character old
ReplaceAll(s, old) == SelectSeq(s, LAMBDA c : c # old)

LowerLetters ==
    <<"a", "b", "c", "d", "e", "f", "g", "h", "i", "j", "k", "l", "m",
      "n", "o", "p", "q", "r", "s", "t", "u", "v", "w", "x", "y", "z">>

DecDigits == <<"0", "1", "2", "3", "4", "5", "6", "7", "8", "9">>

UpperHex == <<"A", "B", "C", "D", "E", "F">>

IndexOf(seq, c) == CHOOSE i \in 1..Len(seq) : seq[i] = c

InSeq(seq, c) == \E i \in 1..Len(seq) : seq[i] = c

\* the byte of a character, []byte(str)[i]
ByteOf(c) ==
    IF InSeq(DecDigits, c) THEN 47 + IndexOf(DecDigits, c)
    ELSE IF InSeq(LowerLetters, c) THEN 96 + IndexOf(LowerLetters, c)
    ELSE IF InSeq(UpperHex, c) THEN 64 + IndexOf(UpperHex, c)
    ELSE CASE c = ":" -> 58
           [] c = "|" -> 124
           [] c = "-" -> 45
           [] c = "+" -> 43
           [] c = "_" -> 95
           [] c = "," -> 44
           [] c = "X" -> 88
           [] c = "`" -> 96
           [] c = "'" -> 39
           [] OTHER -> 63

\* []byte(str)
BytesOfString(s) == [i \in 1..Len(s) |-> ByteOf(s[i])]

\* the digit value of c in the given base, or -1 when c is no digit of it
DigitValue(c, base) ==
    LET v == IF InSeq(DecDigits, c) THEN IndexOf(DecDigits, c) - 1
             ELSE IF InSeq(LowerLetters, c) THEN 9 + IndexOf(LowerLetters, c)
             ELSE IF InSeq(UpperHex, c) THEN 9 + IndexOf(UpperHex, c)
             ELSE -1
    IN  IF v < base THEN v ELSE -1

RECURSIVE ScanDigits(_, _, _, _)
ScanDigits(s, base, i, acc) ==
    IF i > Len(s) THEN [ok |-> TRUE, val |-> acc]
    ELSE IF DigitValue(s[i], base) < 0 THEN [ok |-> FALSE, val |-> 0]
    ELSE ScanDigits(s, base, i + 1, acc * base + DigitValue(s[i], base))

\* (*big.Int).SetString(s, base) for base 2 or 10: an optional sign, then at
\* least one digit of the base, and nothing else
SetString(s, base) ==
    LET signed == Len(s) > 0 /\ s[1] \in {"+", "-"}
        digits == IF signed THEN Drop(s, 1) ELSE s
        scan   == ScanDigits(digits, base, 1, 0)
    IN  IF Len(digits) = 0 \/ ~scan.ok THEN [ok |-> FALSE, val |-> 0]
        ELSE [ok |-> TRUE,
              val |-> IF signed /\ s[1] = "-" THEN -scan.val ELSE scan.val]

RECURSIVE NatBytes(_)
NatBytes(n) == IF n = 0 THEN <<>> ELSE Append(NatBytes(n \div 256), n % 256)

\* (*big.Int).Bytes(): the big-endian bytes of the absolute value, empty for 0
Bytes(n) == NatBytes(IF n < 0 THEN -n ELSE n)

RECURSIVE SetBytes(_)
\* (*big.Int).SetBytes(b): b as a big-endian unsigned integer
SetBytes(b) ==
    IF Len(b) = 0 THEN 0
    ELSE 256 * SetBytes(SubSeq(b, 1, Len(b) - 1)) + b[Len(b)]

RECURSIVE HexDecode(_, _, _)
HexDecode(src, j, dst) ==
    IF j > Len(src)
    THEN IF Len(src) % 2 = 1
         THEN IF DigitValue(src[Len(src)], 16) < 0
              THEN Fail(dst, <<"encoding/hex: invalid byte: ", src[Len(src)]>>, <<>>)
              ELSE Fail(dst, <<"encoding/hex: odd length hex string">>, <<>>)
         ELSE Ok(dst, <<>>)
    ELSE LET a == DigitValue(src[j - 1], 16)
             b == DigitValue(src[j], 16)
         IN  IF a < 0 THEN Fail(dst, <<"encoding/hex: invalid byte: ", src[j - 1]>>, <<>>)
             ELSE IF b < 0 THEN Fail(dst, <<"encoding/hex: invalid byte: ", src[j]>>, <<>>)
             ELSE HexDecode(src, j + 2, Append(dst, a * 16 + b))

\* hex.DecodeString(s): the bytes decoded before the error come with the error
DecodeString(s) == HexDecode(s, 2, <<>>)

-----------------------------------------------------------------------------
(* Collaborators outside the interpreter's own file *)

NoResolver == "nil"

DefaultResolver == "default"

\* FileResolver.ResolveFileValue: the bytes of the named file, or an error.
\* The file system holds every name that does not begin with "z"; a file's
\* contents are a marker byte followed by the bytes of its name.
ResolveFileValue(name) ==
    IF Len(name) > 0 /\ name[1] = "z"
    THEN Fail(<<>>, <<"file not found: ">> \o name, <<>>)
    ELSE Ok(<<241>> \o BytesOfString(name), <<>>)

RECURSIVE Mix(_, _)
Mix(data, h) ==
    IF Len(data) = 0 THEN h
    ELSE Mix(Drop(data, 1), (h * 31 + data[1] + 1) % 256)

\* keccak256: a 32-byte digest of the data
keccak256(data) == Ok([k \in 1..32 |-> (Mix(data, Len(data)) + 7 * k) % 256], <<>>)

\* address: the name, right-padded with '_' to 32 bytes
address(name) ==
    IF Len(name) > 32 THEN Fail(<<>>, <<"address too long">>, <<>>)
    ELSE Ok(name \o [k \in 1..(32 - Len(name)) |-> 95], <<>>)

\* twos.CopyAlignRight: the bytes right-aligned in a field of the given length
CopyAlignRight(bytes, length) ==
    IF Len(bytes) >= length THEN SubSeq(bytes, Len(bytes) - length + 1, Len(bytes))
    ELSE [k \in 1..(length - Len(bytes)) |-> 0] \o bytes

\* twos.ToBytes: the minimal two's-complement big-endian bytes of a big integer
ToBytes(number) ==
    IF number = 0 THEN <<>>
    ELSE IF number > 0
    THEN LET b == Bytes(number)
         IN  IF b[1] >= 128 THEN <<0>> \o b ELSE b
    ELSE LET plus1Bytes == Bytes(number + 1)
             inverted   == [k \in 1..Len(plus1Bytes) |-> 255 - plus1Bytes[k]]
         IN  IF Len(plus1Bytes) = 0 \/ plus1Bytes[1] >= 128
             THEN <<255>> \o inverted
             ELSE inverted

\* twos.ToBytesOfLength: two's complement in exactly the given number of bytes,
\* an error when the minimal representation is longer
ToBytesOfLength(number, length) ==
    LET minimal == ToBytes(number)
        fill    == IF number < 0 THEN 255 ELSE 0
    IN  IF Len(minimal) > length
        THEN Fail(<<>>, <<"representation does not fit in ", ToString(length), " bytes">>, <<>>)
        ELSE Ok([k \in 1..(length - Len(minimal)) |-> fill] \o minimal, <<>>)

-----------------------------------------------------------------------------
(* interpreter.go *)

strPrefixes == << <<"s", "t", "r", ":">>, <<"`", "`">>, <<"'", "'">> >>

addrPrefix == <<"a", "d", "d", "r", "e", "s", "s", ":">>

filePrefix == <<"f", "i", "l", "e", ":">>

keccak256Prefix == <<"k", "e", "c", "c", "a", "k", "2", "5", "6", ":">>

u64Prefix == <<"u", "6", "4", ":">>

u32Prefix == <<"u", "3", "2", ":">>

u16Prefix == <<"u", "1", "6", ":">>

u8Prefix == <<"u", "8", ":">>

i64Prefix == <<"i", "6", "4", ":">>

i32Prefix == <<"i", "3", "2", ":">>

i16Prefix == <<"i", "1", "6", ":">>

i8Prefix == <<"i", "8", ":">>

interpretUnsignedNumber(strRaw) ==
    LET str == ReplaceAll(ReplaceAll(strRaw, "_"), ",")
    IN  IF HasPrefix(strRaw, <<"0", "x">>) \/ HasPrefix(strRaw, <<"0", "X">>)
        THEN LET hexStr == Drop(strRaw, 2)
             IN  DecodeString(IF Len(hexStr) % 2 = 1 THEN <<"0">> \o hexStr ELSE hexStr)
        ELSE IF HasPrefix(strRaw, <<"0", "b">>) \/ HasPrefix(strRaw, <<"0", "B">>)
        THEN LET result == SetString(Drop(str, 2), 2)
             IN  IF ~result.ok
                 THEN Fail(<<>>, <<"could not parse binary value: ">> \o strRaw, <<>>)
                 ELSE Ok(Bytes(result.val), <<>>)
        ELSE LET result == SetString(str, 10)
             IN  IF ~result.ok
                 THEN Fail(<<>>, <<"could not parse base 10 value: ">> \o strRaw, <<>>)
                 ELSE Ok(Bytes(result.val), <<>>)

\* lines 231-241, number being the outcome of line 230
fitUnsignedNumber(strRaw, targetWidth, number) ==
    IF number.fault THEN number
    ELSE IF number.err # Nil THEN Fail(<<>>, number.err, <<>>)
    ELSE IF targetWidth = 0 THEN Ok(number.bytes, <<>>)
    ELSE IF Len(number.bytes) > targetWidth
    THEN Fail(<<>>, <<"representation of ">> \o strRaw
                    \o <<" does not fit in ", ToString(targetWidth), " bytes">>, <<>>)
    ELSE Ok(CopyAlignRight(number.bytes, targetWidth), <<>>)

interpretUnsignedNumberFixedWidth(strRaw, targetWidth) ==
    fitUnsignedNumber(strRaw, targetWidth, interpretUnsignedNumber(strRaw))

\* lines 174, 178-182 for the big integer number
encodeSignedNumber(number, targetWidth) ==
    IF targetWidth = 0 THEN Ok(ToBytes(number), <<>>)
    ELSE ToBytesOfLength(number, targetWidth)

\* lines 171-182, numberBytes being the outcome of line 170
signNumber(sign, targetWidth, numberBytes) ==
    IF numberBytes.fault THEN numberBytes
    ELSE IF numberBytes.err # Nil THEN Fail(<<>>, numberBytes.err, <<>>)
    ELSE IF sign = "-" THEN encodeSignedNumber(-SetBytes(numberBytes.bytes), targetWidth)
    ELSE encodeSignedNumber(SetBytes(numberBytes.bytes), targetWidth)

\* interpretNumber with the sign of a signed number lost: line 176 left out
interpretNumberUnnegated(strRaw, targetWidth) ==
    IF Len(strRaw) = 0 THEN Panic(<<>>)
    ELSE IF strRaw[1] = "-" \/ strRaw[1] = "+"
    THEN signNumber("+", targetWidth, interpretUnsignedNumber(Drop(strRaw, 1)))
    ELSE IF targetWidth = 0 THEN interpretUnsignedNumber(strRaw)
    ELSE interpretUnsignedNumberFixedWidth(strRaw, targetWidth)

\* targetWidth = 0 means minimum length that can contain the result
interpretNumber(strRaw, targetWidth) ==
    IF Len(strRaw) = 0 THEN Panic(<<>>)
    ELSE IF strRaw[1] = "-" \/ strRaw[1] = "+"
    THEN signNumber(strRaw[1], targetWidth, interpretUnsignedNumber(Drop(strRaw, 1)))
    ELSE IF targetWidth = 0 THEN interpretUnsignedNumber(strRaw)
    ELSE interpretUnsignedNumberFixedWidth(strRaw, targetWidth)

tryInterpretFixedWidth(strRaw) ==
    IF HasPrefix(strRaw, u64Prefix)
    THEN [parsed |-> TRUE,
          r |-> interpretUnsignedNumberFixedWidth(Drop(strRaw, Len(u64Prefix)), 8)]
    ELSE IF HasPrefix(strRaw, u32Prefix)
    THEN [parsed |-> TRUE,
          r |-> interpretUnsignedNumberFixedWidth(Drop(strRaw, Len(u32Prefix)), 4)]
    ELSE IF HasPrefix(strRaw, u16Prefix)
    THEN [parsed |-> TRUE,
          r |-> interpretUnsignedNumberFixedWidth(Drop(strRaw, Len(u16Prefix)), 2)]
    ELSE IF HasPrefix(strRaw, u8Prefix)
    THEN [parsed |-> TRUE,
          r |-> interpretUnsignedNumberFixedWidth(Drop(strRaw, Len(u8Prefix)), 1)]
    ELSE IF HasPrefix(strRaw, i64Prefix)
    THEN [parsed |-> TRUE, r |-> interpretNumber(Drop(strRaw, Len(i64Prefix)), 8)]
    ELSE IF HasPrefix(strRaw, i32Prefix)
    THEN [parsed |-> TRUE, r |-> interpretNumber(Drop(strRaw, Len(i32Prefix)), 4)]
    ELSE IF HasPrefix(strRaw, i16Prefix)
    THEN [parsed |-> TRUE, r |-> interpretNumber(Drop(strRaw, Len(i16Prefix)), 2)]
    ELSE IF HasPrefix(strRaw, i8Prefix)
    THEN [parsed |-> TRUE, r |-> interpretNumber(Drop(strRaw, Len(i8Prefix)), 1)]
    ELSE [parsed |-> FALSE, r |-> Ok(<<>>, <<>>)]

\* the first of strPrefixes that strRaw begins with: the loop of lines 140-145
firstStrPrefix(strRaw) ==
    strPrefixes[CHOOSE j \in 1..Len(strPrefixes) :
                    /\ HasPrefix(strRaw, strPrefixes[j])
                    /\ \A h \in 1..(j - 1) : ~HasPrefix(strRaw, strPrefixes[h])]

\* lines 155-163, fixed being the outcome of line 154
fixedOrGeneralNumber(strRaw, fixed) ==
    IF fixed.r.fault THEN fixed.r
    ELSE IF fixed.r.err # Nil THEN Fail(<<>>, fixed.r.err, <<>>)
    ELSE IF fixed.parsed THEN fixed.r
    ELSE interpretNumber(strRaw, 0)

\* the rules of InterpretString below the concatenation, lines 131-163
InterpretSimple(strRaw) ==
    IF strRaw = <<"f", "a", "l", "s", "e">> THEN Ok(<<>>, <<>>)
    ELSE IF strRaw = <<"t", "r", "u", "e">> THEN Ok(<<1>>, <<>>)
    ELSE IF \E k \in 1..Len(strPrefixes) : HasPrefix(strRaw, strPrefixes[k])
    THEN Ok(BytesOfString(Drop(strRaw, Len(firstStrPrefix(strRaw)))), <<>>)
    ELSE IF HasPrefix(strRaw, addrPrefix)
    THEN address(BytesOfString(Drop(strRaw, Len(addrPrefix))))
    ELSE fixedOrGeneralNumber(strRaw, tryInterpretFixedWidth(strRaw))

\* lines 96-99, fileContents being the outcome of the resolver's call of line 95
fileValue(name, fileContents) ==
    IF fileContents.err # Nil THEN Fail(<<>>, fileContents.err, <<name>>)
    ELSE Ok(fileContents.bytes, <<name>>)

\* lines 110-113, hash being the outcome of line 109
hashValue(hash, calls) ==
    IF hash.err # Nil THEN Fail(<<>>, <<"error computing keccak256: ">> \o hash.err, calls)
    ELSE Ok(hash.bytes, calls)

\* lines 106-113, arg being the outcome of line 105
keccak256Value(arg) ==
    IF arg.fault THEN arg
    ELSE IF arg.err # Nil
    THEN Fail(<<>>, <<"cannot parse keccak256 argument: ">> \o arg.err, arg.calls)
    ELSE hashValue(keccak256(arg.bytes), arg.calls)

RECURSIVE InterpretString(_, _)
RECURSIVE InterpretParts(_, _, _, _, _)

\* lines 123-126 with the part's bytes put before the earlier ones
addPartReversed(vi, parts, i, concat, calls, eval) ==
    IF eval.fault THEN Panic(calls \o eval.calls)
    ELSE IF eval.err # Nil THEN Fail(<<>>, eval.err, calls \o eval.calls)
    ELSE InterpretParts(vi, parts, i + 1, eval.bytes \o concat, calls \o eval.calls)

\* the loop of lines 121-128 with each part's bytes put before the earlier ones
InterpretPartsReversed(vi, parts, i, concat, calls) ==
    IF i > Len(parts) THEN Ok(concat, calls)
    ELSE addPartReversed(vi, parts, i, concat, calls, InterpretString(vi, parts[i]))

\* lines 123-126, eval being the outcome of line 122 for part i, and then the
\* rest of the loop
addPart(vi, parts, i, concat, calls, eval) ==
    IF eval.fault THEN Panic(calls \o eval.calls)
    ELSE IF eval.err # Nil THEN Fail(<<>>, eval.err, calls \o eval.calls)
    ELSE InterpretParts(vi, parts, i + 1, concat \o eval.bytes, calls \o eval.calls)

\* the loop of lines 121-128 from part i on, with the bytes and the resolver
\* calls gathered so far
InterpretParts(vi, parts, i, concat, calls) ==
    IF i > Len(parts) THEN Ok(concat, calls)
    ELSE addPart(vi, parts, i, concat, calls, InterpretString(vi, parts[i]))

\* lines 92-99
interpretFile(vi, name) ==
    IF vi = NoResolver THEN Fail(<<>>, <<"parser FileResolver not provided">>, <<>>)
    ELSE fileValue(name, ResolveFileValue(name))

\* lines 119-163, parts being the outcome of line 118
interpretSplit(vi, strRaw, parts) ==
    IF Len(parts) > 1 THEN InterpretParts(vi, parts, 1, <<>>, <<>>)
    ELSE InterpretSimple(strRaw)

\* InterpretString with the concatenation rule tried before the file and
\* keccak256 rules
InterpretStringSplitFirst(vi, strRaw) ==
    IF Len(strRaw) = 0 THEN Ok(<<>>, <<>>)
    ELSE IF Len(Split(strRaw, "|")) > 1
    THEN InterpretParts(vi, Split(strRaw, "|"), 1, <<>>, <<>>)
    ELSE IF HasPrefix(strRaw, filePrefix)
    THEN interpretFile(vi, Drop(strRaw, Len(filePrefix)))
    ELSE IF HasPrefix(strRaw, keccak256Prefix)
    THEN keccak256Value(InterpretString(vi, Drop(strRaw, Len(keccak256Prefix))))
    ELSE InterpretSimple(strRaw)

InterpretString(vi, strRaw) ==
    IF Len(strRaw) = 0 THEN Ok(<<>>, <<>>)
    ELSE IF HasPrefix(strRaw, filePrefix)
    THEN interpretFile(vi, Drop(strRaw, Len(filePrefix)))
    ELSE IF HasPrefix(strRaw, keccak256Prefix)
    THEN keccak256Value(InterpretString(vi, Drop(strRaw, Len(keccak256Prefix))))
    ELSE interpretSplit(vi, strRaw, Split(strRaw, "|"))

-----------------------------------------------------------------------------
(* OJsonObject: a string, a list, a map, or any other JSON value *)

OJsonString(value) == [kind |-> "string", Value |-> value, items |-> <<>>]

OJsonList(items) == [kind |-> "list", Value |-> <<>>, items |-> items]

\* OrderedKV is a sequence of [Key, Value]
OJsonMap(OrderedKV) == [kind |-> "map", Value |-> <<>>, items |-> OrderedKV]

OJsonBool == [kind |-> "bool", Value |-> <<>>, items |-> <<>>]

RECURSIVE InterpretSubTree(_, _)
RECURSIVE InterpretItems(_, _, _, _, _)

\* lines 50-53 and 63-66 going on after an item's error: the later items are
\* evaluated too
addItemKeepGoing(vi, items, i, concat, calls, value, rest) ==
    IF value.fault THEN Panic(calls \o value.calls)
    ELSE IF value.err # Nil /\ rest.err = Nil THEN Fail(<<>>, value.err, rest.calls)
    ELSE rest

\* the loops of lines 48-54 and 60-67 going on after an item's error
InterpretItemsKeepGoing(vi, items, i, concat, calls) ==
    IF i > Len(items) THEN Ok(concat, calls)
    ELSE addItemKeepGoing(vi, items, i, concat, calls, InterpretSubTree(vi, items[i]),
                          InterpretItems(vi, items, i + 1,
                                         concat \o InterpretSubTree(vi, items[i]).bytes,
                                         calls \o InterpretSubTree(vi, items[i]).calls))

\* lines 50-53 and 63-66, value being the outcome of lines 49 and 62 for item i,
\* and then the rest of the loop
addItem(vi, items, i, concat, calls, value) ==
    IF value.fault THEN Panic(calls \o value.calls)
    ELSE IF value.err # Nil THEN Fail(<<>>, value.err, calls \o value.calls)
    ELSE InterpretItems(vi, items, i + 1, concat \o value.bytes, calls \o value.calls)

\* the loops of lines 48-54 and 60-67 from item i on
InterpretItems(vi, items, i, concat, calls) ==
    IF i > Len(items) THEN Ok(concat, calls)
    ELSE addItem(vi, items, i, concat, calls, InterpretSubTree(vi, items[i]))

\* a map's pairs with each key evaluated as a string before its value
MapKeysAndValues(OrderedKV) ==
    [k \in 1..(2 * Len(OrderedKV)) |->
        IF k % 2 = 1 THEN OJsonString(OrderedKV[(k + 1) \div 2].Key)
        ELSE OrderedKV[k \div 2].Value]

\* the values of a map's pairs, in order: keys are ignored
MapValues(OrderedKV) == [k \in 1..Len(OrderedKV) |-> OrderedKV[k].Value]

InterpretSubTree(vi, o) ==
    IF o.kind = "string" THEN InterpretString(vi, o.Value)
    ELSE IF o.kind = "list" THEN InterpretItems(vi, o.items, 1, <<>>, <<>>)
    ELSE IF o.kind = "map" THEN InterpretItems(vi, MapValues(o.items), 1, <<>>, <<>>)
    ELSE Fail(<<>>, <<"cannot interpret given JSON subtree as value">>, <<>>)

-----------------------------------------------------------------------------
(* The calls *)

CallInterpretString ==
    /\ pc = "ready"
    /\ obj.kind = "string"
    /\ out' = InterpretString(FileResolver, obj.Value)
    /\ pc' = "InterpretString"
    /\ UNCHANGED <<FileResolver, obj>>

CallInterpretSubTree ==
    /\ pc = "ready"
    /\ out' = InterpretSubTree(FileResolver, obj)
    /\ pc' = "InterpretSubTree"
    /\ UNCHANGED <<FileResolver, obj>>

Next == CallInterpretString \/ CallInterpretSubTree

-----------------------------------------------------------------------------
(* The inputs *)

\* the longest digit string after a number's sign and radix
MaxDigits == 3

\* the most tokens in an expression built of references, separators and atoms
MaxTokens == 5

\* the most nodes in a tree; a text of k parts joined by "|" counts k
MaxNodes == 3

RECURSIVE StringsOver(_, _)
\* the concatenations of at most n members of tokens
StringsOver(tokens, n) ==
    IF n = 0 THEN {<<>>}
    ELSE LET shorter == StringsOver(tokens, n - 1)
         IN  shorter \cup {t \o s : t \in tokens, s \in shorter}

FixedPrefixes ==
    {u64Prefix, u32Prefix, u16Prefix, u8Prefix, i64Prefix, i32Prefix, i16Prefix, i8Prefix}

Signs == {<<>>, <<"-">>, <<"+">>, <<"-", "-">>, <<"+", "-">>}

Radixes == {<<>>, <<"0", "x">>, <<"0", "b">>}

DigitChars == {<<"0">>, <<"1">>, <<"8">>, <<"z">>}

\* numbers: an optional width prefix, signs, a radix and digits
NumberTexts ==
    {p \o sg \o rx \o d : p \in FixedPrefixes \cup {<<>>}, sg \in Signs,
                          rx \in Radixes, d \in StringsOver(DigitChars, MaxDigits)}

ExprTokens == {filePrefix, keccak256Prefix, <<"|">>, <<"1">>, <<"z">>}

\* expressions of references, separators and atoms
ExprTexts == StringsOver(ExprTokens, MaxTokens)

Leaves == {<<"1">>, <<"z">>, filePrefix \o <<"1">>}

Keys == {<<"1">>, <<"z">>}

RECURSIVE JoinedTexts(_)
\* n leaves joined by "|"
JoinedTexts(n) ==
    IF n = 1 THEN Leaves
    ELSE {l \o <<"|">> \o t : l \in Leaves, t \in JoinedTexts(n - 1)}

RECURSIVE Trees(_)
RECURSIVE Forests(_)

\* the sequences of trees of m nodes in all
Forests(m) ==
    IF m = 0 THEN {<<>>}
    ELSE UNION {{<<t>> \o f : t \in Trees(k), f \in Forests(m - k)} : k \in 1..m}

\* the trees of exactly n nodes
Trees(n) ==
    {OJsonString(t) : t \in JoinedTexts(n)}
    \cup (IF n = 1 THEN {OJsonBool} ELSE {})
    \cup {OJsonList(f) : f \in Forests(n - 1)}
    \cup UNION {{OJsonMap([k \in 1..Len(f) |-> [Key |-> keys[k], Value |-> f[k]]]) :
                    keys \in [1..Len(f) -> Keys]} : f \in Forests(n - 1)}

TreeInputs == UNION {Trees(n) : n \in 1..MaxNodes}

InitWith(inputs, resolvers) ==
    /\ FileResolver \in resolvers
    /\ obj \in inputs
    /\ pc = "ready"
    /\ out = NoResult

\* numbers, with a resolver configured
SpecNumber ==
    InitWith({OJsonString(t) : t \in NumberTexts}, {DefaultResolver}) /\ [][Next]_vars

\* reference and concatenation expressions, with and without a resolver
SpecExpr ==
    InitWith({OJsonString(t) : t \in ExprTexts}, {NoResolver, DefaultResolver})
    /\ [][Next]_vars

\* trees, with and without a resolver
SpecTree == InitWith(TreeInputs, {NoResolver, DefaultResolver}) /\ [][Next]_vars

-----------------------------------------------------------------------------
(* The vocabulary of the properties *)

\* the text handed to InterpretString
Text == obj.Value

Widths == {1, 2, 4, 8}

UnsignedPrefix(w) ==
    CASE w = 1 -> u8Prefix [] w = 2 -> u16Prefix [] w = 4 -> u32Prefix [] w = 8 -> u64Prefix

SignedPrefix(w) ==
    CASE w = 1 -> i8Prefix [] w = 2 -> i16Prefix [] w = 4 -> i32Prefix [] w = 8 -> i64Prefix

\* the base a number text is written in, and its digits
BaseOf(t) ==
    IF HasPrefix(t, <<"0", "x">>) THEN 16 ELSE IF HasPrefix(t, <<"0", "b">>) THEN 2 ELSE 10

DigitsOf(t) == IF BaseOf(t) = 10 THEN t ELSE Drop(t, 2)

\* t writes a non-negative integer in decimal, binary or hexadecimal
IsNatText(t) ==
    /\ Len(DigitsOf(t)) > 0
    /\ \A i \in 1..Len(DigitsOf(t)) : DigitValue(DigitsOf(t)[i], BaseOf(t)) >= 0

RECURSIVE PlaceValue(_, _)
PlaceValue(digits, base) ==
    IF Len(digits) = 0 THEN 0
    ELSE base * PlaceValue(SubSeq(digits, 1, Len(digits) - 1), base)
         + DigitValue(digits[Len(digits)], base)

\* the integer a non-negative number text denotes
NatValue(t) == PlaceValue(DigitsOf(t), BaseOf(t))

IsSign(c) == c = "+" \/ c = "-"

\* t writes an integer: a number text, after one sign or none
IsIntText(t) ==
    IF Len(t) > 0 /\ IsSign(t[1]) THEN IsNatText(Drop(t, 1)) ELSE IsNatText(t)

IntValue(t) ==
    IF Len(t) > 0 /\ t[1] = "-" THEN -NatValue(Drop(t, 1))
    ELSE IF Len(t) > 0 /\ t[1] = "+" THEN NatValue(Drop(t, 1))
    ELSE NatValue(t)

RECURSIVE ByteLen(_)
\* the length of the minimal unsigned big-endian encoding of n
ByteLen(n) == IF n = 0 THEN 0 ELSE 1 + ByteLen(n \div 256)

\* the length of the minimal two's-complement encoding of v: the least L with
\* -2^(8L-1) <= v <= 2^(8L-1) - 1
TwosLen(v) ==
    IF v = 0 THEN 0 ELSE IF v > 0 THEN ByteLen(2 * v + 1) ELSE ByteLen(-2 * v - 1)

RECURSIVE BigEndian(_)
\* the unsigned integer a byte sequence encodes
BigEndian(b) ==
    IF Len(b) = 0 THEN 0 ELSE 256 * BigEndian(SubSeq(b, 1, Len(b) - 1)) + b[Len(b)]

RECURSIVE Power256(_)
Power256(k) == IF k = 0 THEN 1 ELSE 256 * Power256(k - 1)

RECURSIVE StripSignBytes(_)
\* b without its redundant sign-extension bytes
StripSignBytes(b) ==
    IF Len(b) >= 2 /\ ((b[1] = 0 /\ b[2] < 128) \/ (b[1] = 255 /\ b[2] >= 128))
    THEN StripSignBytes(Tail(b))
    ELSE b

\* the signed integer a two's-complement byte sequence encodes
SignedValue(b) ==
    LET m == StripSignBytes(b)
    IN  IF Len(m) = 0 THEN 0
        ELSE BigEndian(m) - (IF m[1] >= 128 THEN Power256(Len(m)) ELSE 0)

DoesNotFit(err) == Len(err) > 0 /\ err[1] = "representation of "

-----------------------------------------------------------------------------
(* Numbers *)

\* C2: whenever InterpretString or InterpretSubTree returns an error, the bytes
\* returned with it are empty.
C2_NoBytesWithError == Failed(out) => out.bytes = <<>>

\* C3: InterpretString always returns, with bytes or with an error; it never
\* aborts with a runtime fault.
C3_NeverFaults == ~out.fault

\* C4: under u8:/u16:/u32:/u64: a remainder denoting n fails with a does-not-fit
\* error exactly when the minimal unsigned encoding of n is longer than the width,
\* and otherwise yields exactly width bytes, n big-endian and zero-padded.
C4_UnsignedFixedWidth ==
    pc = "InterpretString" =>
        \A w \in Widths :
            LET r == Drop(Text, Len(UnsignedPrefix(w)))
            IN  (HasPrefix(Text, UnsignedPrefix(w)) /\ IsNatText(r)) =>
                    IF ByteLen(NatValue(r)) > w
                    THEN Failed(out) /\ DoesNotFit(out.err)
                    ELSE /\ Succeeded(out)
                         /\ Len(out.bytes) = w
                         /\ BigEndian(out.bytes) = NatValue(r)

\* C5: under i8:/i16:/i32:/i64: a remainder denoting v (signed or not) yields the
\* width-byte two's complement of v when v is in the width's range, and an error
\* otherwise.
C5_SignedFixedWidth ==
    pc = "InterpretString" =>
        \A w \in Widths :
            LET r == Drop(Text, Len(SignedPrefix(w)))
            IN  (HasPrefix(Text, SignedPrefix(w)) /\ IsIntText(r)) =>
                    IF TwosLen(IntValue(r)) <= w
                    THEN /\ Succeeded(out)
                         /\ Len(out.bytes) = w
                         /\ SignedValue(out.bytes) = IntValue(r)
                    ELSE Failed(out)

\* C10: the unsigned path never accepts a sign it does not honour: u<8w>:-n does
\* not succeed with the encoding of n, and a number that begins with two signs is
\* rejected.
C10_NoSignDropped ==
    pc = "InterpretString" =>
        /\ \A w \in Widths :
               LET r == Drop(Text, Len(UnsignedPrefix(w)))
               IN  (/\ HasPrefix(Text, UnsignedPrefix(w))
                    /\ Len(r) > 0 /\ r[1] = "-"
                    /\ IsNatText(Drop(r, 1)) /\ NatValue(Drop(r, 1)) > 0) =>
                       ~(Succeeded(out) /\ BigEndian(out.bytes) = NatValue(Drop(r, 1)))
        /\ (Len(Text) >= 2 /\ IsSign(Text[1]) /\ IsSign(Text[2])) => Failed(out)

\* a general number with one sign: the sign, then a text denoting n
IsSignedNat == Len(Text) > 0 /\ IsSign(Text[1]) /\ IsNatText(Drop(Text, 1))

\* the value a signed general number denotes, and the outcome for its unsigned text
SignedNatValue == IntValue(Text)

UnsignedOutcome == InterpretString(FileResolver, Drop(Text, 1))

\* the top bit of n's minimal unsigned encoding is set
TopBitSet(n) == n > 0 /\ n \div Power256(ByteLen(n) - 1) >= 128

\* "-t" and "+t" succeed with the minimal two's complement of -n and +n, and the
\* magnitude is the big-endian value of the bytes produced for t
SignedMinimal ==
    /\ Succeeded(out)
    /\ SignedValue(out.bytes) = SignedNatValue
    /\ Len(out.bytes) = TwosLen(SignedNatValue)
    /\ Succeeded(UnsignedOutcome)
    /\ BigEndian(UnsignedOutcome.bytes) = NatValue(Drop(Text, 1))

\* "+t" carries a leading zero byte when the top bit of n's encoding is set, and
\* differs from the outcome for t in exactly those cases
PlusDiffersOnTopBit ==
    LET n == NatValue(Drop(Text, 1))
    IN  /\ TopBitSet(n) => (out.bytes[1] = 0 /\ Tail(out.bytes) = Bytes(n))
        /\ TopBitSet(n) <=> out.bytes # UnsignedOutcome.bytes

\* C9 as stated: a sign-prefixed general number is the minimal two's complement
\* of -n or +n; "+t" carries a leading 0x00 exactly when the top bit of n's
\* unsigned encoding is set and differs from InterpretString(t) in exactly those
\* cases.
C9_AsStated ==
    (pc = "InterpretString" /\ IsSignedNat) =>
        /\ SignedMinimal
        /\ Text[1] = "+" => PlusDiffersOnTopBit

\* C9 amended: as stated, the comparison of "+t" with InterpretString(t) being
\* limited to texts t whose own bytes carry no leading zero byte (decimal and binary
\* texts always, hexadecimal texts without leading zero digit pairs).
C9_SignedMinimal ==
    (pc = "InterpretString" /\ IsSignedNat) =>
        /\ SignedMinimal
        /\ (Text[1] = "+" /\ Len(UnsignedOutcome.bytes) = ByteLen(NatValue(Drop(Text, 1))))
               => PlusDiffersOnTopBit

\* a negative number whose magnitude has its top bit set has been encoded, and a
\* positive one has got its leading zero byte
C9_Witness ==
    /\ pc = "InterpretString"
    /\ IsSignedNat
    /\ NatValue(Drop(Text, 1)) = 129
    /\ \/ Text[1] = "-" /\ out.bytes = <<255, 127>>
       \/ Text[1] = "+" /\ out.bytes = <<0, 129>>

-----------------------------------------------------------------------------
(* References and concatenation *)

IsRef(e) == HasPrefix(e, filePrefix) \/ HasPrefix(e, keccak256Prefix)

HasBar(e) == \E i \in 1..Len(e) : e[i] = "|"

\* the outcome of interpreting e on its own, with the resolver of the state
Alone(e) == InterpretString(FileResolver, e)

\* the text is e1 + "|" + e2 with the bar at k, e1 and e2 both valid, and the
\* outcome is the bytes of e1 followed by those of e2
ConcatenatesAt(k) ==
    LET r1 == Alone(SubSeq(Text, 1, k - 1))
        r2 == Alone(Drop(Text, k))
    IN  (Succeeded(r1) /\ Succeeded(r2)) =>
            (Succeeded(out) /\ out.bytes = r1.bytes \o r2.bytes)

\* C1 as stated: for all valid e1 and e2 of any form, file: and keccak256:
\* included, InterpretString(e1 + "|" + e2) succeeds with InterpretString(e1)
\* followed by InterpretString(e2).
C1_AsStated ==
    pc = "InterpretString" =>
        \A k \in 1..Len(Text) : Text[k] = "|" => ConcatenatesAt(k)

\* C1 amended: the same for valid e1 and e2 where e1 does not begin with file: or
\* keccak256:, and e2 does not both begin with one of them and contain a "|".
C1_Concatenation ==
    pc = "InterpretString" =>
        \A k \in 1..Len(Text) :
            (/\ Text[k] = "|"
             /\ ~IsRef(SubSeq(Text, 1, k - 1))
             /\ ~(IsRef(Drop(Text, k)) /\ HasBar(Drop(Text, k)))) => ConcatenatesAt(k)

\* a number and a file reference have been concatenated
C1_Witness ==
    /\ pc = "InterpretString"
    /\ FileResolver = DefaultResolver
    /\ Text = <<"1", "|">> \o filePrefix \o <<"1">>
    /\ out.bytes = <<1, 241, 49>>
    /\ Succeeded(out)

\* C6: a text that begins with file: hands its whole remainder, bars included, to
\* the resolver in one call (an error without a resolver); a text that begins
\* with keccak256: is the digest of its whole remainder interpreted as an
\* expression.  Neither is split on "|".
C6_ReferencesFirst ==
    pc = "InterpretString" =>
        /\ HasPrefix(Text, filePrefix) =>
               LET name == Drop(Text, Len(filePrefix))
               IN  IF FileResolver = NoResolver
                   THEN Failed(out) /\ out.bytes = <<>> /\ out.calls = <<>>
                   ELSE /\ out.calls = <<name>>
                        /\ ~out.fault
                        /\ out.bytes = ResolveFileValue(name).bytes
                        /\ out.err = ResolveFileValue(name).err
        /\ HasPrefix(Text, keccak256Prefix) =>
               LET inner == Alone(Drop(Text, Len(keccak256Prefix)))
               IN  /\ out.calls = inner.calls
                   /\ IF Succeeded(inner)
                      THEN Succeeded(out) /\ out.bytes = keccak256(inner.bytes).bytes
                      ELSE ~Succeeded(out) /\ out.bytes = <<>>

\* the digest of a file whose name holds a bar has been computed
C6_Witness ==
    /\ pc = "InterpretString"
    /\ Text = keccak256Prefix \o filePrefix \o <<"1", "|", "1">>
    /\ Succeeded(out)
    /\ out.calls = << <<"1", "|", "1">> >>
    /\ out.bytes = keccak256(<<241, 49, 124, 49>>).bytes

-----------------------------------------------------------------------------
(* Trees *)

RECURSIVE WithoutKeys(_)
\* the tree with every map replaced by the list of its values
WithoutKeys(o) ==
    IF o.kind = "list"
    THEN OJsonList([k \in 1..Len(o.items) |-> WithoutKeys(o.items[k])])
    ELSE IF o.kind = "map"
    THEN OJsonList([k \in 1..Len(o.items) |-> WithoutKeys(o.items[k].Value)])
    ELSE o

\* C7: a map evaluates to the same bytes or the same error as the list of its
\* values in insertion order, whatever its keys, at every nesting depth.
C7_KeysIgnored ==
    pc = "InterpretSubTree" => out = InterpretSubTree(FileResolver, WithoutKeys(obj))

\* a map inside a map, with a key that is no valid expression, has been evaluated
C7_Witness ==
    /\ pc = "InterpretSubTree"
    /\ obj.kind = "map"
    /\ Len(obj.items) = 1
    /\ obj.items[1].Key = <<"z">>
    /\ obj.items[1].Value.kind = "map"
    /\ Succeeded(out)
    /\ out.bytes = <<1>>

\* the call aggregates items: a list, a map, or a text split on "|"
IsAggregate ==
    /\ pc # "ready"
    /\ \/ obj.kind \in {"list", "map"}
       \/ obj.kind = "string" /\ ~IsRef(Text) /\ HasBar(Text)

\* the items aggregated, in order
AggregatedItems ==
    IF obj.kind = "string"
    THEN [k \in 1..Len(Split(Text, "|")) |-> OJsonString(Split(Text, "|")[k])]
    ELSE IF obj.kind = "map" THEN [k \in 1..Len(obj.items) |-> obj.items[k].Value]
    ELSE obj.items

\* the outcome of evaluating item k on its own
ItemOutcome(k) == InterpretSubTree(FileResolver, AggregatedItems[k])

RECURSIVE CallsThrough(_)
\* the resolver calls of items 1..k
CallsThrough(k) == IF k = 0 THEN <<>> ELSE CallsThrough(k - 1) \o ItemOutcome(k).calls

\* item i is the first to fail
FirstFailure(i) == Failed(ItemOutcome(i)) /\ \A j \in 1..(i - 1) : Succeeded(ItemOutcome(j))

\* C8: a list, a map or a concatenation is evaluated left to right; when item i
\* is the first to fail the call returns item i's error with no bytes, and no
\* later item is evaluated: the resolver is not called for it, and its error is
\* not reported.
C8_FirstErrorAborts ==
    IsAggregate =>
        \A i \in 1..Len(AggregatedItems) :
            FirstFailure(i) =>
                /\ ~out.fault
                /\ out.err = ItemOutcome(i).err
                /\ out.bytes = <<>>
                /\ out.calls = CallsThrough(i)

\* a list has failed at its first item, without the resolver call of the second
C8_Witness ==
    /\ pc = "InterpretSubTree"
    /\ FileResolver = DefaultResolver
    /\ obj = OJsonList(<<OJsonString(<<"z">>), OJsonString(filePrefix \o <<"1">>)>>)
    /\ Failed(out)
    /\ out.bytes = <<>>
    /\ out.calls = <<>>

=============================================================================
